---- MODULE Spec2Model ----
(***************************************************************************)
(* GenericArrow (envVisualizer/components/arrows/GenericArrow.tsx).        *)
(*                                                                         *)
(* The arrow is built from an anchor `from`, gets a target through to(),   *)
(* and draw() folds the steps of calculateSteps() into a flat coordinate   *)
(* list that the shape's sceneFunc turns into canvas commands.             *)
(*                                                                         *)
(* Two builds of the class exist: the composite one (a KonvaPath plus a    *)
(* KonvaArrow in a group) and the integrated one (one shape whose          *)
(* sceneFunc also strokes the arrowhead).  `mode` says which one runs.     *)
(*                                                                         *)
(* Numbers.  The point list holds plain integers.  Inside sceneFunc the    *)
(* code halves differences (dx1 / 2), so everything sceneFunc computes is  *)
(* kept in fixed point with one fractional bit: Fx(n) = 2 * n stands for   *)
(* the number n, and 2 * n + 1 for n + 0.5.  A JavaScript value is a       *)
(* record: Num(v) (v in fixed point), Undefined (a read outside the        *)
(* array) or NaN (arithmetic on a value that is not a number).             *)
(***************************************************************************)
EXTENDS Integers, Sequences, FiniteSets

\* ---------------------------------------------------------------- bounds
MaxSteps == 3      \* longest step list a calculateSteps override returns
MaxRenders == 2    \* sceneFunc invocations followed per draw()
MaxKey == 1        \* cap on Layout.key, i.e. on the number of draw() calls
MaxHops == 4       \* longest step list in the specification of the renderer

\* ------------------------------------------------------ program constants
cornerRadius == 40
arrowLen == 10

\* ------------------------------------------------------ JavaScript values
Fx(n) == 2 * n
Num(v) == [t |-> "num", v |-> v]
Undefined == [t |-> "undefined", v |-> 0]
NaN == [t |-> "NaN", v |-> 0]
IsNum(a) == a.t = "num"

Abs(n) == IF n < 0 THEN -n ELSE n
Sign(n) == IF n > 0 THEN 1 ELSE IF n < 0 THEN -1 ELSE 0
Min(a, b) == IF a <= b THEN a ELSE b
Max(a, b) == IF a >= b THEN a ELSE b

\* points[i] with a 0-based index: a number, or undefined outside the array
Get(points, i) ==
    IF i >= 0 /\ i < Len(points) THEN Num(Fx(points[i + 1])) ELSE Undefined

JsSub(a, b) == IF IsNum(a) /\ IsNum(b) THEN Num(a.v - b.v) ELSE NaN
JsAdd(a, b) == IF IsNum(a) /\ IsNum(b) THEN Num(a.v + b.v) ELSE NaN
JsMul(a, b) == IF IsNum(a) /\ IsNum(b) THEN Num(a.v * b.v) ELSE NaN
\* Math.abs(a / 2): a is twice a coordinate difference in fixed point, so even
JsAbsHalf(a) == IF IsNum(a) THEN Num(Abs(a.v) \div 2) ELSE NaN
JsAbs(a) == IF IsNum(a) THEN Num(Abs(a.v)) ELSE NaN
\* Math.sign yields a plain factor, not a fixed-point number
JsSign(a) == IF IsNum(a) THEN Num(Sign(a.v)) ELSE NaN
JsMin(a, b) == IF IsNum(a) /\ IsNum(b) THEN Num(Min(a.v, b.v)) ELSE NaN
JsMax(a, b) == IF IsNum(a) /\ IsNum(b) THEN Num(Max(a.v, b.v)) ELSE NaN

RECURSIVE Gcd(_, _)
Gcd(a, b) == IF b = 0 THEN a ELSE Gcd(b, a % b)

\* Math.atan2(dy, dx).  An angle is kept as the direction it points in, reduced
\* to lowest terms, so two headings are equal exactly when the angles are;
\* atan2(0, 0) is 0, the angle of the direction (dx, dy) = (1, 0).
Atan2(dy, dx) ==
    IF ~(IsNum(dy) /\ IsNum(dx)) THEN NaN
    ELSE IF dy.v = 0 /\ dx.v = 0 THEN [t |-> "angle", dy |-> 0, dx |-> 1]
    ELSE LET g == Gcd(Abs(dy.v), Abs(dx.v))
         IN  [t |-> "angle", dy |-> dy.v \div g, dx |-> dx.v \div g]

\* base - arrowLen * fn(angle + rot * PI / 6), fn being cos or sin: kept as the
\* expression, which is a number only if base and angle are
HeadCoord(base, angle, rot, fn) ==
    IF IsNum(base) /\ angle.t = "angle"
    THEN [t |-> "head", base |-> base.v, len |-> Fx(arrowLen),
          angle |-> angle, rot |-> rot, fn |-> fn]
    ELSE NaN

\* ------------------------------------------------------- canvas commands
BeginPath == [op |-> "beginPath", args |-> <<>>]
MoveTo(x, y) == [op |-> "moveTo", args |-> <<x, y>>]
LineTo(x, y) == [op |-> "lineTo", args |-> <<x, y>>]
QuadraticCurveTo(cx, cy, x, y) == [op |-> "quadraticCurveTo", args |-> <<cx, cy, x, y>>]
StrokeShape == [op |-> "strokeShape", args |-> <<>>]

\* ------------------------------------------------ sceneFunc: corner loop
dx1(points, n) == JsSub(Get(points, n + 2), Get(points, n + 0))
dy1(points, n) == JsSub(Get(points, n + 3), Get(points, n + 1))
br1(points, n) ==
    JsMin(Num(Fx(cornerRadius)), JsMax(JsAbsHalf(dx1(points, n)), JsAbsHalf(dy1(points, n))))
dx2(points, n) == JsSub(Get(points, n + 2 + 2), Get(points, n + 0 + 2))
dy2(points, n) == JsSub(Get(points, n + 3 + 2), Get(points, n + 1 + 2))
br2(points, n) ==
    JsMin(Num(Fx(cornerRadius)), JsMax(JsAbsHalf(dx2(points, n)), JsAbsHalf(dy2(points, n))))
br(points, n) == JsMin(br1(points, n), br2(points, n))

x1(points, n) ==
    JsAdd(Get(points, n + 0),
          JsMul(JsSub(JsAbs(dx1(points, n)), br(points, n)), JsSign(dx1(points, n))))
y1(points, n) ==
    JsAdd(Get(points, n + 1),
          JsMul(JsSub(JsAbs(dy1(points, n)), br(points, n)), JsSign(dy1(points, n))))
\* x2 and y2 are read after n += 2: the joint is points[n + 2], points[n + 3]
x2(points, n) ==
    JsAdd(Get(points, n + 2), JsMul(br(points, n), JsSign(dx2(points, n))))
y2(points, n) ==
    JsAdd(Get(points, n + 3), JsMul(br(points, n), JsSign(dy2(points, n))))

\* one pass of the while body at cursor n
CornerCmds(points, n) ==
    << LineTo(x1(points, n), y1(points, n)),
       QuadraticCurveTo(Get(points, n + 2), Get(points, n + 3),
                        x2(points, n), y2(points, n)) >>

\* the loop running one joint too far (n < points.length - 2)
RECURSIVE CornerLoopOver(_, _)
CornerLoopOver(points, n) ==
    IF n < Len(points) - 2
    THEN CornerCmds(points, n) \o CornerLoopOver(points, n + 2)
    ELSE <<>>

RECURSIVE CornerLoop(_, _)
CornerLoop(points, n) ==
    IF n < Len(points) - 4
    THEN CornerCmds(points, n) \o CornerLoop(points, n + 2)
    ELSE <<>>

\* beginPath ... the last lineTo of the path proper
PathCmds(points) ==
    << BeginPath, MoveTo(Get(points, 0), Get(points, 1)) >>
    \o (IF Len(points) = 4
        THEN << LineTo(Get(points, 2), Get(points, 3)) >>
        ELSE CornerLoop(points, 0)
             \o << LineTo(Get(points, Len(points) - 2), Get(points, Len(points) - 1)) >>)

\* ------------------------------------------- sceneFunc: inlined arrowhead
angle(points) ==
    Atan2(JsSub(Get(points, Len(points) - 1), Get(points, Len(points) - 3)),
          JsSub(Get(points, Len(points) - 2), Get(points, Len(points) - 4)))

ArrowheadCmds(points) ==
    << LineTo(HeadCoord(Get(points, Len(points) - 2), angle(points), -1, "cos"),
              HeadCoord(Get(points, Len(points) - 1), angle(points), -1, "sin")),
       MoveTo(Get(points, Len(points) - 2), Get(points, Len(points) - 1)),
       LineTo(HeadCoord(Get(points, Len(points) - 2), angle(points), 1, "cos"),
              HeadCoord(Get(points, Len(points) - 1), angle(points), 1, "sin")) >>

sceneFunc(points, variant) ==
    PathCmds(points)
    \o (IF variant = "integrated" THEN ArrowheadCmds(points) ELSE <<>>)
    \o << StrokeShape >>

\* ------------------------------------------------------------ endpoints
\* a Visible: anything with numeric x and y
Visible(px, py) == [x |-> px, y |-> py]
Anchors == { Visible(0, 0), Visible(10, 20) }
Targets == { Visible(0, 0), Visible(100, 0) }

\* this.target: a Visible, or undefined
NoTarget == [set |-> FALSE, x |-> 0, y |-> 0]
SomeTarget(to) == [set |-> TRUE, x |-> to.x, y |-> to.y]

\* ---------------------------------------------------------------- steps
\* A step is a function (x, y) => [x', y'].  The two forms the class comment
\* names: (x, y) => [x + dx, y + dy] and (x, y) => [to.x, to.y].
RelStep(dx, dy) == [kind |-> "rel", a |-> dx, b |-> dy]
AbsStep(tx, ty) == [kind |-> "abs", a |-> tx, b |-> ty]
step(s, px, py) ==
    IF s.kind = "rel" THEN << px + s.a, py + s.b >> ELSE << s.a, s.b >>

\* the steps an overriding calculateSteps may be made of: the four axis
\* directions (short and long hops) and one hop that is not axis-aligned
StepSet ==
    { RelStep(50, 0), RelStep(-100, 0), RelStep(0, 50), RelStep(0, -100),
      RelStep(3, 100) }

RECURSIVE SeqsUpTo(_, _)
SeqsUpTo(S, n) ==
    IF n = 0 THEN { <<>> }
    ELSE LET shorter == SeqsUpTo(S, n - 1)
         IN  shorter \cup { Append(q, e) : q \in shorter, e \in S }

\* which calculateSteps the arrow has: the one of GenericArrow, or an override
\* returning a fixed list of steps
DefaultPolicy == [kind |-> "default", steps |-> <<>>]
Override(steps) == [kind |-> "override", steps |-> steps]
Policies == { DefaultPolicy } \cup { Override(q) : q \in SeqsUpTo(StepSet, MaxSteps) }

\* ------------------------------------------------- the element draw() returns
\* visual attributes of the stroked shape: the KonvaPath of the composite
\* build, the KonvaArrow of the integrated one
ShapeProps ==
    [ fill |-> "Config.SA_WHITE", stroke |-> "Config.SA_WHITE",
      strokeWidth |-> "Config.ArrowStrokeWidth",
      hitStrokeWidth |-> "Config.ArrowHitStrokeWidth" ]
\* the KonvaArrow inside the composite build's group
ArrowChildProps ==
    [ fill |-> "Config.SA_WHITE", stroke |-> "Config.SA_WHITE",
      strokeWidth |-> "0", hitStrokeWidth |-> "0" ]
NoAttrs == [ k \in {} |-> "" ]

\* the nodes of the element and their attributes: a KonvaGroup holding a
\* KonvaPath and a KonvaArrow (composite), or one KonvaArrow (integrated)
Element(variant) ==
    IF variant = "composite"
    THEN [ group |-> NoAttrs, path |-> ShapeProps, arrow |-> ArrowChildProps ]
    ELSE [ arrow |-> ShapeProps ]
NoElement == [ n \in {} |-> NoAttrs ]

\* the node that carries onMouseEnter / onMouseLeave: the handlers'
\* currentTarget
HoverTarget(variant) == IF variant = "composite" THEN "group" ELSE "arrow"
Children(node) == IF node = "group" THEN { "path", "arrow" } ELSE {}

\* the attributes onMouseEnter / onMouseLeave hand to the style helpers
onMouseEnterAttrs == [ strokeWidth |-> "Config.ArrowHoveredStrokeWidth" ]
onMouseLeaveAttrs == [ strokeWidth |-> "Config.ArrowStrokeWidth" ]

\* node.setAttrs(newAttrs): the attributes passed are set, the others stay
setAttrs(nodeAttrs, newAttrs) ==
    [ k \in DOMAIN nodeAttrs \cup DOMAIN newAttrs |->
        IF k \in DOMAIN newAttrs THEN newAttrs[k] ELSE nodeAttrs[k] ]

\* setHoveredStyle / setUnhoveredStyle (EnvVisualizerUtils): the attributes
\* passed are set on the target node and, when it is a group, on its children
setStyle(elem, node, newAttrs) ==
    [ n \in DOMAIN elem |->
        IF n = node \/ n \in Children(node)
        THEN setAttrs(elem[n], newAttrs)
        ELSE elem[n] ]

\* ------------------------------------------------------------------ state
VARIABLES
    mode,        \* "composite" or "integrated": which build of the class runs
    policy,      \* the arrow's calculateSteps
    from,        \* this.from
    x, y,        \* this.x, this.y
    width, height,
    thisPoints,  \* this.points
    target,      \* this.target
    returned,    \* what the last to() returned ("none" before the first call)
    key,         \* Layout.key
    drawn,       \* draw() has run: its element is what the host shows
    drawnSteps,  \* the steps calculateSteps() returned to the last draw()
    calls,       \* the (x, y) each step was invoked with in the last draw()
    points,      \* the point list the last draw() built (captured by sceneFunc)
    renders,     \* number of sceneFunc invocations since draw()
    cmds,        \* the commands the latest of them issued
    nodes,       \* the nodes of the drawn element, each with its attributes
    lastHover,   \* the hover handler last invoked on the element, or "none"
    entered      \* onMouseEnter has been invoked on the element

vars == << mode, policy, from, x, y, width, height, thisPoints, target, returned,
           key, drawn, drawnSteps, calls, points, renders, cmds, nodes,
           lastHover, entered >>

arrowFields == << from, x, y, width, height, thisPoints, target >>

Modes == { "composite", "integrated" }

\* field initialisers and the constructor, for an arrow whose calculateSteps
\* is one of `policies`
Constructed(policies) ==
    /\ mode \in Modes
    /\ policy \in policies
    /\ from \in Anchors
    /\ x = from.x
    /\ y = from.y
    /\ height = 0
    /\ width = 0
    /\ thisPoints = <<>>
    /\ target = NoTarget
    /\ returned = "none"
    /\ key = 0
    /\ drawn = FALSE
    /\ drawnSteps = <<>>
    /\ calls = <<>>
    /\ points = <<>>
    /\ renders = 0
    /\ cmds = <<>>
    /\ nodes = NoElement
    /\ lastHover = "none"
    /\ entered = FALSE

Init == Constructed(Policies)

\* to() taking the signed differences
ToSigned(to) ==
    /\ target' = SomeTarget(to)
    /\ width' = to.x - from.x
    /\ height' = to.y - from.y
    /\ returned' = "this"
    /\ UNCHANGED << mode, policy, from, x, y, thisPoints, key, drawn, drawnSteps,
                    calls, points, renders, cmds, nodes, lastHover, entered >>

\* to(to)
To(to) ==
    /\ target' = SomeTarget(to)
    /\ width' = Abs(to.x - from.x)
    /\ height' = Abs(to.y - from.y)
    /\ returned' = "this"
    /\ UNCHANGED << mode, policy, from, x, y, thisPoints, key, drawn, drawnSteps,
                    calls, points, renders, cmds, nodes, lastHover, entered >>

calculateSteps ==
    IF policy.kind = "default"
    THEN IF ~target.set THEN <<>> ELSE << AbsStep(target.x, target.y) >>
    ELSE policy.steps

\* the reducer of draw(): one step applied to the accumulated list
Reducer(acc, s) ==
    LET px == acc.points[Len(acc.points) - 1]
        py == acc.points[Len(acc.points)]
    IN  [ points |-> acc.points \o step(s, px, py),
          calls |-> Append(acc.calls, << px, py >>) ]

RECURSIVE Reduce(_, _, _)
Reduce(steps, i, acc) ==
    IF i > Len(steps) THEN acc ELSE Reduce(steps, i + 1, Reducer(acc, steps[i]))

\* a splice that leaves the anchor in the list
SpliceNothing(list) == list

\* points.splice(0, 2)
Splice02(list) == SubSeq(list, 3, Len(list))

\* draw(): the fold, the splice, and the element with its sceneFunc
Draw ==
    /\ key < MaxKey
    /\ LET folded == Reduce(calculateSteps, 1,
                            [points |-> << from.x, from.y >>, calls |-> <<>>])
       IN  /\ points' = Splice02(folded.points)
           /\ calls' = folded.calls
    /\ drawnSteps' = calculateSteps
    /\ key' = key + 1
    /\ drawn' = TRUE
    /\ renders' = 0
    /\ cmds' = <<>>
    /\ nodes' = Element(mode)
    /\ lastHover' = "none"
    /\ entered' = FALSE
    /\ UNCHANGED << mode, policy, from, x, y, width, height, thisPoints, target,
                    returned >>

\* a sceneFunc that trims the captured list itself, on every invocation
SceneFuncTrimming ==
    /\ drawn
    /\ renders < MaxRenders
    /\ renders' = renders + 1
    /\ cmds' = sceneFunc(points, mode)
    /\ points' = Splice02(points)
    /\ UNCHANGED << mode, policy, from, x, y, width, height, thisPoints, target,
                    returned, key, drawn, drawnSteps, calls, nodes, lastHover,
                    entered >>

\* the host invokes the drawn shape's sceneFunc
SceneFunc ==
    /\ drawn
    /\ renders < MaxRenders
    /\ renders' = renders + 1
    /\ cmds' = sceneFunc(points, mode)
    /\ UNCHANGED << mode, policy, from, x, y, width, height, thisPoints, target,
                    returned, key, drawn, drawnSteps, calls, points, nodes,
                    lastHover, entered >>

OnMouseEnter ==
    /\ drawn
    /\ nodes' = setStyle(nodes, HoverTarget(mode), onMouseEnterAttrs)
    /\ lastHover' = "enter"
    /\ entered' = TRUE
    /\ UNCHANGED << mode, policy, from, x, y, width, height, thisPoints, target,
                    returned, key, drawn, drawnSteps, calls, points, renders, cmds >>

OnMouseLeave ==
    /\ drawn
    /\ nodes' = setStyle(nodes, HoverTarget(mode), onMouseLeaveAttrs)
    /\ lastHover' = "leave"
    /\ UNCHANGED entered
    /\ UNCHANGED << mode, policy, from, x, y, width, height, thisPoints, target,
                    returned, key, drawn, drawnSteps, calls, points, renders, cmds >>

Next ==
    \/ \E to \in Targets : To(to)
    \/ Draw
    \/ SceneFunc
    \/ OnMouseEnter
    \/ OnMouseLeave

Spec == Init /\ [][Next]_vars

\* The renderer on longer lists: arrows whose calculateSteps returns up to
\* MaxHops steps, drawn and rendered.
LongPolicies == { Override(q) : q \in SeqsUpTo(StepSet, MaxHops) }
InitRender == Constructed(LongPolicies)
NextRender ==
    \/ Draw
    \/ SceneFunc
SpecRender == InitRender /\ [][NextRender]_vars

\* ---------------------------------------------------------------- helpers
\* the i-th (x, y) pair of a flat coordinate list, i from 1
Pair(list, i) == << list[2 * i - 1], list[2 * i] >>
NPairs(list) == Len(list) \div 2
NumPair(p) == << Num(Fx(p[1])), Num(Fx(p[2])) >>

\* the commands of the path proper: all but the trailing strokeShape and, in
\* the integrated build, the three arrowhead commands before it
PathPart(c, variant) ==
    SubSeq(c, 1, Len(c) - (IF variant = "integrated" THEN 4 ELSE 1))
HeadPart(c) == SubSeq(c, Len(c) - 3, Len(c) - 1)

Draws(c) == c.op \in { "moveTo", "lineTo", "quadraticCurveTo" }
Defined(a) == a.t \in { "num", "head" }
AllDefined(c) == \A i \in 1..Len(c.args) : Defined(c.args[i])

\* ------------------------------------------------------------------ claims

\* C1: the list draw() builds holds one pair per step and no anchor: pair i is
\* the output of step i, step 1 is called with the anchor's (x, y) and step
\* i > 1 with pair i - 1.
C1_PlanFoldsStepsInOrder ==
    drawn =>
        /\ Len(points) = 2 * Len(drawnSteps)
        /\ Len(calls) = Len(drawnSteps)
        /\ \A i \in 1..Len(drawnSteps) :
              /\ Pair(points, i) = step(drawnSteps[i], calls[i][1], calls[i][2])
              /\ calls[i] = IF i = 1 THEN << from.x, from.y >> ELSE Pair(points, i - 1)

C1_Witness ==
    /\ drawn
    /\ Len(drawnSteps) = 3
    /\ from = Visible(10, 20)
    /\ drawnSteps[2] = RelStep(3, 100)

\* C8: width and height are 0 and the target unset until to() is called; from
\* then on the target is the endpoint passed last, width and height are the
\* absolute coordinate differences between it and from, to() returned the
\* arrow, and from, x, y (from's coordinates) never change.
C8_Fields ==
    /\ x = from.x
    /\ y = from.y
    /\ ~target.set => (width = 0 /\ height = 0 /\ returned = "none")
    /\ target.set =>
          /\ width = Abs(target.x - from.x)
          /\ height = Abs(target.y - from.y)
          /\ width >= 0 /\ height >= 0
          /\ returned = "this"

C8_ToContract ==
    /\ []C8_Fields
    /\ [][ /\ from' = from /\ x' = x /\ y' = y
           /\ \A to \in Targets :
                 To(to) => (target'.set /\ target'.x = to.x /\ target'.y = to.y)
         ]_vars

C8_Witness ==
    /\ target = SomeTarget(Visible(0, 0))
    /\ from = Visible(10, 20)
    /\ width = 10
    /\ height = 20
    /\ drawn
    /\ drawnSteps = << AbsStep(100, 0) >>

\* C9: for a list of m >= 2 pairs sceneFunc issues beginPath, a moveTo at the
\* first pair, then for m = 2 one lineTo to the last pair and no curve, and for
\* m > 2 one (lineTo, quadraticCurveTo) per interior joint in list order and
\* then one lineTo to the last pair; no coordinate is read outside the list.
C9_CommandShape ==
    (renders > 0 /\ Len(points) >= 4) =>
        LET m == NPairs(points)
            path == PathPart(cmds, mode)
        IN  /\ Len(path) = IF m = 2 THEN 3 ELSE 2 + 2 * (m - 2) + 1
            /\ path[1] = BeginPath
            /\ path[2].op = "moveTo"
            /\ path[2].args = NumPair(Pair(points, 1))
            /\ path[Len(path)].op = "lineTo"
            /\ path[Len(path)].args = NumPair(Pair(points, m))
            /\ \A j \in 1..(m - 2) :
                  /\ path[1 + 2 * j].op = "lineTo"
                  /\ path[2 + 2 * j].op = "quadraticCurveTo"
                  /\ SubSeq(path[2 + 2 * j].args, 1, 2) = NumPair(Pair(points, j + 1))
            /\ m = 2 => \A i \in 1..Len(cmds) : cmds[i].op # "quadraticCurveTo"
            /\ \A i \in 1..Len(path) : \A k \in 1..Len(path[i].args) : IsNum(path[i].args[k])

\* two interior joints, the second with a hop that is not axis-aligned
C9_Witness ==
    /\ renders > 0
    /\ Len(points) = 8
    /\ mode = "integrated"
    /\ drawnSteps[4] = RelStep(3, 100)
    /\ Len(PathPart(cmds, mode)) = 7

\* C6: a sceneFunc invocation changes neither the captured point list nor the
\* arrow's fields (from, x, y, width, height, points, target), and every
\* invocation after the first issues the commands the one before it issued.
C6_RenderIdempotent ==
    [][ renders' = renders + 1 =>
           /\ points' = points
           /\ arrowFields' = arrowFields
           /\ renders >= 1 => cmds' = cmds
      ]_vars

C6_Witness ==
    /\ renders = 2
    /\ Len(points) = 6
    /\ target.set

\* ------------------------------------------- claims the code does not meet

Between(v, a, b) == Min(a, b) <= v /\ v <= Max(a, b)
Sq(n) == n * n

\* the nodes of the element that are drawn with a stroke
Shapes == DOMAIN nodes \ { "group" }

C2_StraightLineFromAnchor ==
    (renders > 0 /\ policy = DefaultPolicy /\ Len(drawnSteps) = 1) =>
        /\ points = << drawnSteps[1].a, drawnSteps[1].b >>
        /\ PathPart(cmds, mode) =
              << BeginPath,
                 MoveTo(Num(Fx(from.x)), Num(Fx(from.y))),
                 LineTo(Num(Fx(drawnSteps[1].a)), Num(Fx(drawnSteps[1].b))) >>

\* C3 as stated: with no target the default calculateSteps gives no steps and
\* an empty list, and a list of fewer than 4 coordinates makes sceneFunc issue
\* no moveTo, lineTo or quadraticCurveTo.
C3_ShortListDrawsNothing ==
    /\ (drawn /\ policy = DefaultPolicy /\ Len(drawnSteps) = 0) => points = <<>>
    /\ (renders > 0 /\ Len(points) < 4) => \A i \in 1..Len(cmds) : ~Draws(cmds[i])

\* C4 as stated: at every interior joint 0 <= br <= half the length of each
\* adjacent segment, the lineTo target lies between the previous point and the
\* joint, and the curve's end lies between the joint and the next point.
C4_RadiusWithinSegments ==
    (renders > 0 /\ Len(points) >= 6) =>
        \A j \in 1..(NPairs(points) - 2) :
            LET n == 2 * (j - 1)
                path == PathPart(cmds, mode)
                prev == Pair(points, j)
                joint == Pair(points, j + 1)
                next == Pair(points, j + 2)
                back == path[1 + 2 * j].args
                fwd == SubSeq(path[2 + 2 * j].args, 3, 4)
                r == br(points, n).v
            IN  /\ 0 <= r
                /\ 4 * Sq(r) <= Sq(dx1(points, n).v) + Sq(dy1(points, n).v)
                /\ 4 * Sq(r) <= Sq(dx2(points, n).v) + Sq(dy2(points, n).v)
                /\ Between(back[1].v, Fx(prev[1]), Fx(joint[1]))
                /\ Between(back[2].v, Fx(prev[2]), Fx(joint[2]))
                /\ Between(fwd[1].v, Fx(joint[1]), Fx(next[1]))
                /\ Between(fwd[2].v, Fx(joint[2]), Fx(next[2]))

\* q lies on the segment from a to b, at distance r from b
OnSegmentAt(q, a, b, r) ==
    /\ (q[1] - a[1]) * (b[2] - a[2]) = (q[2] - a[2]) * (b[1] - a[1])
    /\ Between(q[1], a[1], b[1])
    /\ Between(q[2], a[2], b[2])
    /\ Sq(q[1] - b[1]) + Sq(q[2] - b[2]) = Sq(r)

\* C5 as stated: at every interior joint the lineTo target is on the incoming
\* segment at distance br from the joint, the curve ends on the outgoing
\* segment at distance br from the joint, and its control point is the joint.
C5_CornerGeometry ==
    (renders > 0 /\ Len(points) >= 6) =>
        \A j \in 1..(NPairs(points) - 2) :
            LET n == 2 * (j - 1)
                path == PathPart(cmds, mode)
                prev == << Fx(points[n + 1]), Fx(points[n + 2]) >>
                joint == << Fx(points[n + 3]), Fx(points[n + 4]) >>
                next == << Fx(points[n + 5]), Fx(points[n + 6]) >>
                back == << path[1 + 2 * j].args[1].v, path[1 + 2 * j].args[2].v >>
                curve == path[2 + 2 * j].args
                fwd == << curve[3].v, curve[4].v >>
                r == br(points, n).v
            IN  /\ OnSegmentAt(back, prev, joint, r)
                /\ OnSegmentAt(fwd, next, joint, r)
                /\ << curve[1].v, curve[2].v >> = joint

\* C10 as stated: in the integrated build, for the list drawn from an arrow
\* with a target, the heading is taken from the last two points of the list,
\* both present, so it is a number, and the two arrowhead strokes start at the
\* last point and end at defined coordinates.
C10_HeadingDefined ==
    (mode = "integrated" /\ renders > 0 /\ policy = DefaultPolicy /\ Len(drawnSteps) = 1) =>
        LET head == HeadPart(cmds)
            m == NPairs(points)
        IN  /\ m >= 2
            /\ angle(points).t = "angle"
            /\ PathPart(cmds, mode)[Len(cmds) - 4] = LineTo(Get(points, 2 * m - 2), Get(points, 2 * m - 1))
            /\ head[1].op = "lineTo" /\ AllDefined(head[1])
            /\ head[2] = MoveTo(Get(points, 2 * m - 2), Get(points, 2 * m - 1))
            /\ head[3].op = "lineTo" /\ AllDefined(head[3])

====
